---- MODULE Spec2Model ----
(***************************************************************************)
(* The rc3 CERT Cube explorer (src/explore_cube.py): the room graph store  *)
(* CubeRooms with its JSON persistence and backups, the breadth-first path *)
(* finder, the selector of the next incomplete room, and the exploration   *)
(* loop that drives the browser.                                           *)
(*                                                                         *)
(* A Python dict keeps insertion order, and both the search and the        *)
(* selector iterate dicts, so the graph is a sequence of room entries, and *)
(* each entry's connections a sequence of <<direction, target>> pairs.     *)
(***************************************************************************)
EXTENDS Integers, Sequences, FiniteSets, TLC

VARIABLES
    rooms,        \* CubeRooms.rooms of the running process
    file,         \* content of the primary JSON file
    backups,      \* the backup files: a set of <<timestamp, content>>
    now,          \* the wall clock, in seconds (what strftime formats)
    pc,           \* position of the process in the script
    outcome,      \* "running", "exit1" (sys.exit(1)), "exception", "killed"
    err,          \* which fatal condition ended the process
    cur,          \* the room the browser is in (driver.current_url)
    pending,      \* a key press was sent and has not taken effect yet
    startId,      \* local of the main loop
    nextDir,      \* local of the main loop
    newId,        \* getRoomId(newUrl) of the main loop
    polls,        \* iterations of the poll loop done in this step
    path,         \* local of the main loop: the selector's answer
    mode,         \* which branch the step took: "LocalExpand" / "Navigate"
    moves,        \* moves performed so far (bounded)
    restarts,     \* restarts of the script so far (bounded)
    caller,       \* who called _save: "init" or "addRoom"
    returned,     \* history: the edges whose addRoom call has returned
    insertedHere, \* history: this process has inserted an edge
    query,        \* the call made on the store by a direct caller
    result,       \* what that call returned
    maze          \* where each move leads, in a run through a static maze

vars == <<rooms, file, backups, now, pc, outcome, err, cur, pending, startId,
          nextDir, newId, polls, path, mode, moves, restarts, caller,
          returned, insertedHere, query, result, maze>>

-----------------------------------------------------------------------------
(* Bounds of the model. *)

MaxMoves == 3
MaxRestarts == 1
MaxClock == 1
MaxEdges == 6
MaxCalls == 4

\* The rooms of the maze: ids as getRoomId extracts them from the URL.
Rooms == {0, 1, 2}

-----------------------------------------------------------------------------
(* Constants of the program. *)

DIR_UP == "u"
DIR_DOWN == "d"
DIR_LEFT == "l"
DIR_RIGHT == "r"

allDirections == <<DIR_UP, DIR_RIGHT, DIR_DOWN, DIR_LEFT>>

DirSet == {allDirections[i] : i \in 1..Len(allDirections)}

\* len(self.rooms[targetRoom]) < 4
CompleteCount == 4

\* for i in range(10)
PollBudget == 10

NoRoom == -1
NoDir == ""

\* The browser is not bound to a static maze.
NoMaze == <<>>

-----------------------------------------------------------------------------
(* Ordered dicts. *)

\* Position of key k in the sequence of entries s (0 when absent); an entry
\* is a pair <<key, value>>.
RECURSIVE IndexOf(_, _, _)
IndexOf(s, k, i) ==
    IF i > Len(s) THEN 0
    ELSE IF s[i][1] = k THEN i
    ELSE IndexOf(s, k, i + 1)

HasKey(s, k) == IndexOf(s, k, 1) # 0

Lookup(s, k) == s[IndexOf(s, k, 1)][2]

\* d[k] = v: an existing key keeps its place, a new one goes last.
Assign(s, k, v) ==
    IF HasKey(s, k)
    THEN [s EXCEPT ![IndexOf(s, k, 1)] = <<k, v>>]
    ELSE Append(s, <<k, v>>)

\* The edges of a graph as a set of <<room, direction, target>>.
EdgesOf(g) ==
    UNION {{<<g[i][1], g[i][2][j][1], g[i][2][j][2]>> :
              j \in 1..Len(g[i][2])} : i \in 1..Len(g)}

-----------------------------------------------------------------------------
(* JSON text.  A file is missing, holds text that json.load rejects, or    *)
(* holds a JSON document: an object whose members are <<key, value>> with  *)
(* the key a string (a sequence of characters), the value an object of     *)
(* direction -> number or something else.                                  *)

Missing == [kind |-> "missing"]
\* What open(jsonFile, "w") leaves before anything is written.
Truncated == [kind |-> "text", text |-> "empty"]
\* A proper prefix of a dumped document: its braces are not closed.
Partial == [kind |-> "text", text |-> "prefix"]
Garbage == [kind |-> "text", text |-> "garbage"]
JsonDoc(members) == [kind |-> "json", doc |-> members]

JObject(conns) == [kind |-> "object", members |-> conns]
JNumber(n) == [kind |-> "number", n |-> n]

Digits == <<"0", "1", "2", "3", "4", "5", "6", "7", "8", "9">>

\* str(n) of a non-negative int, as json.dump writes a dict key: the
\* decimal digits, most significant first.
RECURSIVE IntToStr(_)
IntToStr(n) ==
    IF n < 10 THEN <<Digits[n + 1]>>
    ELSE IntToStr(n \div 10) \o <<Digits[(n % 10) + 1]>>

IsDigit(c) == \E i \in 1..10 : Digits[i] = c

DigitValue(c) == (CHOOSE i \in 1..10 : Digits[i] = c) - 1

\* int(s) succeeds on a non-empty string of decimal digits (leading zeros
\* allowed) and raises ValueError on the other keys of this model.
CanParseInt(s) == Len(s) > 0 /\ \A i \in 1..Len(s) : IsDigit(s[i])

RECURSIVE StrToInt(_)
StrToInt(s) ==
    IF Len(s) = 1 THEN DigitValue(s[1])
    ELSE 10 * StrToInt(SubSeq(s, 1, Len(s) - 1)) + DigitValue(s[Len(s)])

-----------------------------------------------------------------------------
(* CubeRooms: the store. *)

\* json.dump(self.rooms, fp, indent=4): int keys become strings, the inner
\* dicts are written as they are, in dict order.
Dump(g) ==
    JsonDoc([i \in 1..Len(g) |-> <<IntToStr(g[i][1]), JObject(g[i][2])>>])

\* The inner loop with the dict made anew for every member: the room keeps
\* its last direction only.
LoadConnsLast(members, i, conns) ==
    IF Len(members) = 0 THEN <<>> ELSE <<members[Len(members)]>>

\* The inner loop of __init__, lines 49-50: copy the members of one room.
RECURSIVE LoadConns(_, _, _)
LoadConns(members, i, conns) ==
    IF i > Len(members) THEN conns
    ELSE LoadConns(members, i + 1, Assign(conns, members[i][1], members[i][2]))

\* The outer loop of __init__, lines 47-50, from member i on, with g the
\* dict built so far.  An exception leaves what was built.
RECURSIVE LoadRooms(_, _, _)
LoadRooms(doc, i, g) ==
    IF i > Len(doc) THEN [ok |-> TRUE, rooms |-> g]
    ELSE IF ~CanParseInt(doc[i][1]) THEN [ok |-> FALSE, rooms |-> g]
    ELSE LET id == StrToInt(doc[i][1])
             g1 == Assign(g, id, <<>>)
         IN  IF doc[i][2].kind # "object"
             THEN [ok |-> FALSE, rooms |-> g1]
             ELSE LoadRooms(doc, i + 1,
                      Assign(g1, id, LoadConns(doc[i][2].members, 1, <<>>)))

\* CubeRooms.__init__, lines 40-52: the try block and what self.rooms is
\* when it ends.
LoadFile(f) ==
    IF f.kind # "json" THEN [ok |-> FALSE, rooms |-> <<>>]
    ELSE LoadRooms(f.doc, 1, <<>>)

\* CubeRooms.get
get(g, room) == IF ~HasKey(g, room) THEN <<>> ELSE Lookup(g, room)

\* addRoom that lets the last observation win: a mismatch replaces the
\* stored target and is saved.
addRoomOverwrite(g, startRoom, direction, resultRoom) ==
    LET g1 == IF ~HasKey(g, startRoom)
              THEN Assign(g, startRoom, <<>>) ELSE g
        conns == Lookup(g1, startRoom)
    IN  IF HasKey(conns, direction) /\ Lookup(conns, direction) = resultRoom
        THEN [how |-> "known", rooms |-> g1]
        ELSE [how |-> "inserted",
              rooms |-> Assign(g1, startRoom,
                               Assign(conns, direction, resultRoom))]

\* addRoom without the early return: a known edge is stored and saved again.
addRoomResave(g, startRoom, direction, resultRoom) ==
    LET g1 == IF ~HasKey(g, startRoom)
              THEN Assign(g, startRoom, <<>>) ELSE g
        conns == Lookup(g1, startRoom)
    IN  IF HasKey(conns, direction) /\ Lookup(conns, direction) # resultRoom
        THEN [how |-> "inconsistent", rooms |-> g1]
        ELSE [how |-> "inserted",
              rooms |-> Assign(g1, startRoom,
                               Assign(conns, direction, resultRoom))]

\* addRoom with the two rooms taken for one another: the edge is recorded
\* from resultRoom to startRoom.
addRoomSwapped(g, startRoom, direction, resultRoom) ==
    LET g1 == IF ~HasKey(g, resultRoom)
              THEN Assign(g, resultRoom, <<>>) ELSE g
        conns == Lookup(g1, resultRoom)
    IN  IF HasKey(conns, direction)
        THEN IF Lookup(conns, direction) # startRoom
             THEN [how |-> "inconsistent", rooms |-> g1]
             ELSE [how |-> "known", rooms |-> g1]
        ELSE [how |-> "inserted",
              rooms |-> Assign(g1, resultRoom,
                               Assign(conns, direction, startRoom))]

\* addRoom that assigns the room a new dict with the one direction.
addRoomReplaceEntry(g, startRoom, direction, resultRoom) ==
    LET g1 == IF ~HasKey(g, startRoom)
              THEN Assign(g, startRoom, <<>>) ELSE g
        conns == Lookup(g1, startRoom)
    IN  IF HasKey(conns, direction)
        THEN IF Lookup(conns, direction) # resultRoom
             THEN [how |-> "inconsistent", rooms |-> g1]
             ELSE [how |-> "known", rooms |-> g1]
        ELSE [how |-> "inserted",
              rooms |-> Assign(g1, startRoom, <<<<direction, resultRoom>>>>)]

\* CubeRooms.addRoom up to the call of _save: the dict afterwards and which
\* way the method went.
addRoom(g, startRoom, direction, resultRoom) ==
    IF direction \notin DirSet
    THEN [how |-> "assert", rooms |-> g]
    ELSE LET g1 == IF ~HasKey(g, startRoom)
                   THEN Assign(g, startRoom, <<>>) ELSE g
             conns == Lookup(g1, startRoom)
         IN  IF HasKey(conns, direction)
             THEN IF Lookup(conns, direction) # resultRoom
                  THEN [how |-> "inconsistent", rooms |-> g1]
                  ELSE [how |-> "known", rooms |-> g1]
             ELSE [how |-> "inserted",
                   rooms |-> Assign(g1, startRoom,
                                    Assign(conns, direction, resultRoom))]

-----------------------------------------------------------------------------
(* The path finder.  Python values that the code tells apart by type are   *)
(* tagged: a list, a tuple (room, direction), None, and a raised exception.*)

PyList(items) == [tag |-> "list", items |-> items]
PyStep(room, d) == [tag |-> "tuple", room |-> room, dir |-> d]
None == [tag |-> "none"]
Raised(exc) == [tag |-> "raise", exc |-> exc]

\* The loop of lines 106-110 without the test of line 108 on the path: a
\* room found again gets the later path.
RECURSIVE ExpandRoomOverwrite(_, _, _, _, _)
ExpandRoomOverwrite(conns, j, at, dist, q) ==
    IF j > Len(conns) THEN [dist |-> dist, q |-> q]
    ELSE LET d == conns[j][1]
             next == conns[j][2]
             dist1 == Assign(dist, next,
                             PyList(<<Lookup(dist, at), PyStep(next, d)>>))
         IN  IF ~HasKey(dist, next)
             THEN ExpandRoomOverwrite(conns, j + 1, at, dist1, Append(q, next))
             ELSE ExpandRoomOverwrite(conns, j + 1, at, dist1, q)

\* Lines 106-110: the loop over the directions of room `at`, from its j-th
\* connection on.
RECURSIVE ExpandRoom(_, _, _, _, _)
ExpandRoom(conns, j, at, dist, q) ==
    IF j > Len(conns) THEN [dist |-> dist, q |-> q]
    ELSE LET d == conns[j][1]
             next == conns[j][2]
         IN  IF ~HasKey(dist, next)
             THEN ExpandRoom(conns, j + 1, at,
                      Assign(dist, next,
                             PyList(<<Lookup(dist, at), PyStep(next, d)>>)),
                      Append(q, next))
             ELSE ExpandRoom(conns, j + 1, at, dist, q)

\* Lines 104-111: the while loop and the return.  self.rooms[at] raises
\* KeyError for a room that has no entry.
RECURSIVE SearchLoop(_, _, _, _)
SearchLoop(g, dist, q, end) ==
    IF Len(q) = 0
    THEN IF HasKey(dist, end) THEN Lookup(dist, end) ELSE None
    ELSE LET at == Head(q)
         IN  IF ~HasKey(g, at) THEN Raised("KeyError")
             ELSE LET r == ExpandRoom(Lookup(g, at), 1, at, dist, Tail(q))
                  IN  SearchLoop(g, r.dist, r.q, end)

\* CubeRooms.find_shortest_path
find_shortest_path(g, start, end) ==
    SearchLoop(g, <<<<start, PyList(<<PyStep(start, NoDir)>>)>>>>,
               <<start>>, end)

\* unwrap of getPathToNextIncomplete: a Python list of steps, as a sequence.
RECURSIVE unwrap(_)
unwrap(p) ==
    IF p.tag = "list" THEN unwrap(p.items[1]) \o Tail(p.items)
    ELSE <<p>>

\* The loop of lines 123-128 with <= for < in line 124: a complete room is
\* a candidate too.
RECURSIVE CandidateLoopAll(_, _, _, _)
CandidateLoopAll(g, startRoom, i, targetPath) ==
    IF i > Len(g) THEN targetPath
    ELSE IF Len(g[i][2]) <= CompleteCount
    THEN LET found == find_shortest_path(g, startRoom, g[i][1])
         IN  IF found.tag = "raise" THEN found
             ELSE LET p == Tail(unwrap(found))
                  IN  IF Len(p) > 0
                         /\ (targetPath.tag = "none"
                             \/ Len(p) < Len(targetPath.items))
                      THEN CandidateLoopAll(g, startRoom, i + 1, PyList(p))
                      ELSE CandidateLoopAll(g, startRoom, i + 1, targetPath)
    ELSE CandidateLoopAll(g, startRoom, i + 1, targetPath)

\* Lines 123-128: the loop over the rooms from the i-th on; targetPath is
\* None or a non-empty list of steps.
RECURSIVE CandidateLoop(_, _, _, _)
CandidateLoop(g, startRoom, i, targetPath) ==
    IF i > Len(g) THEN targetPath
    ELSE IF Len(g[i][2]) < CompleteCount
    THEN LET found == find_shortest_path(g, startRoom, g[i][1])
         IN  IF found.tag = "raise" THEN found
             ELSE LET p == Tail(unwrap(found))
                  IN  IF Len(p) > 0
                         /\ (targetPath.tag = "none"
                             \/ Len(p) < Len(targetPath.items))
                      THEN CandidateLoop(g, startRoom, i + 1, PyList(p))
                      ELSE CandidateLoop(g, startRoom, i + 1, targetPath)
    ELSE CandidateLoop(g, startRoom, i + 1, targetPath)

\* CubeRooms.getPathToNextIncomplete: None, a list of steps, or the KeyError
\* of the search.
getPathToNextIncomplete(g, startRoom) == CandidateLoop(g, startRoom, 1, None)

-----------------------------------------------------------------------------
(* The files the script may find when it starts. *)

\* A document whose second key is not a number: int(rId) raises after the
\* first room was copied.
BadKeyFile ==
    JsonDoc(<< <<IntToStr(1), JObject(<<<<DIR_UP, 2>>>>)>>,
               <<<<"x">>, JObject(<<>>)>> >>)

\* A document whose room maps to a number: iterating it raises after the
\* room got its empty dict.
BadValueFile == JsonDoc(<< <<IntToStr(0), JNumber(5)>> >>)

\* What an earlier run in a maze of two rooms left after six moves: both
\* rooms lack the last direction.
SnapshotGraph ==
    << <<0, <<<<DIR_UP, 1>>, <<DIR_RIGHT, 1>>, <<DIR_DOWN, 1>>>>>>,
       <<1, <<<<DIR_UP, 0>>, <<DIR_RIGHT, 0>>, <<DIR_DOWN, 0>>>>>> >>

SnapshotFile == Dump(SnapshotGraph)

InitFiles == {Missing, Garbage, BadKeyFile, BadValueFile, SnapshotFile}

-----------------------------------------------------------------------------
(* The script: construction of the store, the main loop, the world. *)

StoreVars == <<rooms, file, backups>>
LoopVars == <<startId, nextDir, newId, polls, path, mode>>
ApiVars == <<query, result>>

Init ==
    /\ rooms = <<>>
    /\ file \in InitFiles
    /\ backups = {}
    /\ now = 0
    /\ pc = "start"
    /\ outcome = "running"
    /\ err = "none"
    /\ cur \in Rooms
    /\ pending = FALSE
    /\ startId = NoRoom
    /\ nextDir = NoDir
    /\ newId = NoRoom
    /\ polls = 0
    /\ path = None
    /\ mode = "none"
    /\ moves = 0
    /\ restarts = 0
    /\ caller = "none"
    /\ returned = {}
    /\ insertedHere = FALSE
    /\ query = <<>>
    /\ result = None
    /\ maze = NoMaze

\* rooms = CubeRooms(roomJsonFile), lines 146 and 37-55, up to the call of
\* _save.
Load ==
    /\ pc = "start"
    /\ LET r == LoadFile(file)
       IN  /\ rooms' = r.rooms
           /\ pc' = IF r.ok THEN "save_open" ELSE "choose"
           /\ caller' = IF r.ok THEN "init" ELSE caller
    /\ UNCHANGED <<file, backups, now, outcome, err, cur, pending, LoopVars,
                   moves, restarts, returned, insertedHere, ApiVars>>
    /\ UNCHANGED maze

\* _save, line 89: open(self.jsonFile, "w") truncates the file.
SaveOpen ==
    /\ pc = "save_open"
    /\ file' = Truncated
    /\ pc' = "save_dump"
    /\ UNCHANGED <<rooms, backups, now, outcome, err, cur, pending, LoopVars,
                   moves, restarts, caller, returned, insertedHere, ApiVars>>
    /\ UNCHANGED maze

\* _save, line 90: the buffer of fp is flushed before the document is
\* complete.
SaveFlush ==
    /\ pc = "save_dump"
    /\ file = Truncated
    /\ file' = Partial
    /\ UNCHANGED <<rooms, backups, now, pc, outcome, err, cur, pending,
                   LoopVars, moves, restarts, caller, returned, insertedHere,
                   ApiVars>>
    /\ UNCHANGED maze

\* _save, lines 89-90: json.dump has written the document and the with
\* block has closed the file.
SaveDump ==
    /\ pc = "save_dump"
    /\ file' = Dump(rooms)
    /\ pc' = "save_copy"
    /\ UNCHANGED <<rooms, backups, now, outcome, err, cur, pending, LoopVars,
                   moves, restarts, caller, returned, insertedHere, ApiVars>>
    /\ UNCHANGED maze

\* shutil.copyfile(self.jsonFile, backupName): a file of that name is
\* replaced.
WriteBackup(bs, name, content) ==
    {b \in bs : b[1] # name} \cup {<<name, content>>}

\* _save, lines 92-93, and the return to the caller: __init__ goes on to the
\* main loop, addRoom returns into it.
SaveCopy ==
    /\ pc = "save_copy"
    /\ backups' = WriteBackup(backups, now, file)
    /\ pc' = "choose"
    /\ returned' = IF caller = "addRoom"
                   THEN returned \cup {<<startId, nextDir, newId>>}
                   ELSE returned
    /\ UNCHANGED <<rooms, file, now, outcome, err, cur, pending, LoopVars,
                   moves, restarts, caller, insertedHere, ApiVars>>
    /\ UNCHANGED maze

\* The clock is read by _save alone (line 92), so a second passes, in the
\* model, right before it is read.
Tick ==
    /\ pc = "save_copy"
    /\ now < MaxClock
    /\ now' = now + 1
    /\ UNCHANGED <<rooms, file, backups, pc, outcome, err, cur, pending,
                   LoopVars, moves, restarts, caller, returned, insertedHere,
                   ApiVars>>
    /\ UNCHANGED maze

\* The scan of lines 166-170 without its break: the last missing direction.
RECURSIVE LastMissing(_, _)
LastMissing(knownResults, i) ==
    IF i > Len(allDirections) THEN NoDir
    ELSE LET later == LastMissing(knownResults, i + 1)
         IN  IF later # NoDir THEN later
             ELSE IF ~HasKey(knownResults, allDirections[i])
             THEN allDirections[i]
             ELSE NoDir

\* Lines 166-170: the first direction of allDirections not in knownResults,
\* from the i-th on; NoDir for None.
RECURSIVE FirstMissing(_, _)
FirstMissing(knownResults, i) ==
    IF i > Len(allDirections) THEN NoDir
    ELSE IF ~HasKey(knownResults, allDirections[i]) THEN allDirections[i]
    ELSE FirstMissing(knownResults, i + 1)

\* Lines 160-177: one pass of the main loop up to the chosen direction.
\* path[0][1] of None raises TypeError; a KeyError of the search is not
\* caught either.
Choose ==
    /\ pc = "choose"
    /\ startId' = cur
    /\ LET d == FirstMissing(get(rooms, cur), 1)
           p == getPathToNextIncomplete(rooms, cur)
       IN  IF d # NoDir
           THEN /\ nextDir' = d
                /\ mode' = "LocalExpand"
                /\ pc' = "perform"
                /\ UNCHANGED <<path, outcome, err>>
           ELSE /\ mode' = "Navigate"
                /\ IF p.tag = "raise"
                   THEN /\ outcome' = "exception"
                        /\ err' = p.exc
                        /\ pc' = "exited"
                        /\ UNCHANGED <<path, nextDir>>
                   ELSE IF p.tag = "none"
                   THEN /\ path' = p
                        /\ outcome' = "exception"
                        /\ err' = "TypeError"
                        /\ pc' = "exited"
                        /\ UNCHANGED nextDir
                   ELSE /\ path' = p
                        /\ nextDir' = p.items[1].dir
                        /\ pc' = "perform"
                        /\ UNCHANGED <<outcome, err>>
    /\ UNCHANGED <<StoreVars, now, cur, pending, newId, polls, moves,
                   restarts, caller, returned, insertedHere, ApiVars>>
    /\ UNCHANGED maze

\* Line 191: actionChains[nextDir].perform() sends the key press.
Perform ==
    /\ pc = "perform"
    /\ moves < MaxMoves
    /\ pending' = TRUE
    /\ moves' = moves + 1
    /\ polls' = 0
    /\ pc' = "poll"
    /\ UNCHANGED <<StoreVars, now, outcome, err, cur, startId, nextDir, newId,
                   path, mode, restarts, caller, returned, insertedHere,
                   ApiVars>>
    /\ UNCHANGED maze

\* The browser: the key press takes effect and the avatar enters another
\* room, while the script polls or after it was killed.
ActuatorMoves ==
    /\ pending
    /\ pc \in {"poll", "down"}
    /\ cur' \in Rooms \ {cur}
    /\ pending' = FALSE
    /\ UNCHANGED <<StoreVars, now, pc, outcome, err, LoopVars, moves,
                   restarts, caller, returned, insertedHere, ApiVars>>
    /\ UNCHANGED maze

\* The poll loop without the else branch of the for: after the last
\* iteration the script goes on to line 205.
PollFallsThrough ==
    /\ pc = "poll"
    /\ polls < PollBudget
    /\ IF cur # startId \/ polls + 1 = PollBudget
       THEN /\ newId' = cur
            /\ pc' = "record"
            /\ polls' = 0
       ELSE /\ polls' = polls + 1
            /\ UNCHANGED <<pc, newId>>
    /\ UNCHANGED <<StoreVars, now, outcome, err, cur, pending, startId,
                   nextDir, path, mode, moves, restarts, caller, returned,
                   insertedHere, ApiVars>>
    /\ UNCHANGED maze

\* Lines 194-203: one iteration of the poll loop; the else branch of the
\* for after the last.  The loop counter is dead after the break.
Poll ==
    /\ pc = "poll"
    /\ polls < PollBudget
    /\ IF cur # startId
       THEN /\ newId' = cur
            /\ pc' = "record"
            /\ polls' = 0
            /\ UNCHANGED <<outcome, err>>
       ELSE /\ polls' = polls + 1
            /\ IF polls + 1 = PollBudget
               THEN /\ outcome' = "exit1"
                    /\ err' = "stalled"
                    /\ pc' = "exited"
               ELSE UNCHANGED <<pc, outcome, err>>
            /\ UNCHANGED newId
    /\ UNCHANGED <<StoreVars, now, cur, pending, startId, nextDir, path,
                   mode, moves, restarts, caller, returned, insertedHere,
                   ApiVars>>
    /\ UNCHANGED maze

\* addRoom that leaves the saving to a later call.
SaveSkipped == FALSE

\* addRoom, line 76: the insertion is followed by self._save().
SaveAfterInsert == TRUE

\* Line 205: rooms.addRoom(startId, nextDir, getRoomId(newUrl)), up to the
\* call of _save.
Record ==
    /\ pc = "record"
    /\ LET r == addRoom(rooms, startId, nextDir, newId)
       IN  /\ rooms' = r.rooms
           /\ IF r.how = "inserted"
              THEN /\ pc' = IF SaveAfterInsert THEN "save_open" ELSE "choose"
                   /\ caller' = "addRoom"
                   /\ insertedHere' = TRUE
                   /\ UNCHANGED <<outcome, err, returned>>
              ELSE IF r.how = "known"
              THEN /\ pc' = "choose"
                   /\ returned' = returned \cup {<<startId, nextDir, newId>>}
                   /\ UNCHANGED <<outcome, err, caller, insertedHere>>
              ELSE /\ pc' = "exited"
                   /\ outcome' = IF r.how = "assert" THEN "exception"
                                 ELSE "exit1"
                   /\ err' = IF r.how = "assert" THEN "AssertionError"
                             ELSE "inconsistent"
                   /\ UNCHANGED <<caller, returned, insertedHere>>
    /\ UNCHANGED <<file, backups, now, cur, pending, LoopVars, moves,
                   restarts, ApiVars>>
    /\ UNCHANGED maze

\* The process is killed: what it held in memory is gone, the files stay as
\* they are.
Crash ==
    /\ pc \notin {"down", "exited", "api", "answered"}
    /\ restarts < MaxRestarts
    /\ pc' = "down"
    /\ outcome' = "killed"
    /\ rooms' = <<>>
    /\ startId' = NoRoom
    /\ nextDir' = NoDir
    /\ newId' = NoRoom
    /\ polls' = 0
    /\ path' = None
    /\ mode' = "none"
    /\ caller' = "none"
    /\ insertedHere' = FALSE
    /\ UNCHANGED <<file, backups, now, err, cur, pending, moves, restarts,
                   returned, ApiVars>>
    /\ UNCHANGED maze

\* The operator starts the script again on the same file; a key press that
\* has had no effect by then has none.
Restart ==
    /\ pc \in {"down", "exited"}
    /\ restarts < MaxRestarts
    /\ restarts' = restarts + 1
    /\ pc' = "start"
    /\ outcome' = "running"
    /\ err' = "none"
    /\ pending' = FALSE
    /\ rooms' = <<>>
    /\ startId' = NoRoom
    /\ nextDir' = NoDir
    /\ newId' = NoRoom
    /\ polls' = 0
    /\ path' = None
    /\ mode' = "none"
    /\ caller' = "none"
    /\ insertedHere' = FALSE
    /\ UNCHANGED <<file, backups, now, cur, moves, returned, ApiVars>>
    /\ UNCHANGED maze

Next ==
    \/ Load
    \/ SaveOpen
    \/ SaveFlush
    \/ SaveDump
    \/ SaveCopy
    \/ Tick
    \/ Choose
    \/ Perform
    \/ ActuatorMoves
    \/ Poll
    \/ Record
    \/ Crash
    \/ Restart

Spec == Init /\ [][Next]_vars

-----------------------------------------------------------------------------
(* The path finder and the selector called on a store directly.  The store *)
(* holds any graph that runs of the script can have recorded in this maze: *)
(* the rooms in any order, each with the first k directions of             *)
(* allDirections, each leading to another room, MaxEdges edges at most.    *)

\* The connections of room r with its first k directions recorded.
PrefixConns(r, k) ==
    {[j \in 1..k |-> <<allDirections[j], t[j]>>] :
        t \in [1..k -> Rooms \ {r}]}

RoomOrders ==
    {o \in UNION {[1..n -> Rooms] : n \in 0..Cardinality(Rooms)} :
        \A i, j \in 1..Len(o) : i # j => o[i] # o[j]}

\* The graphs whose rooms are o[i], o[i+1], ... with `budget` edges at most.
RECURSIVE GraphsFrom(_, _, _)
GraphsFrom(o, i, budget) ==
    IF i > Len(o) THEN {<<>>}
    ELSE UNION {
           {<<<<o[i], c>>>> \o rest :
               rest \in GraphsFrom(o, i + 1, budget - Len(c))} :
           c \in UNION {PrefixConns(o[i], k) :
                          k \in 1..(IF budget < CompleteCount THEN budget
                                    ELSE CompleteCount)}}

GraphFamily == UNION {GraphsFrom(o, 1, MaxEdges) : o \in RoomOrders}

InitPath ==
    /\ rooms \in GraphFamily
    /\ file = Dump(rooms)
    /\ backups = {<<0, file>>}
    /\ now = 0
    /\ pc = "api"
    /\ outcome = "running"
    /\ err = "none"
    /\ cur = 0
    /\ pending = FALSE
    /\ startId = NoRoom
    /\ nextDir = NoDir
    /\ newId = NoRoom
    /\ polls = 0
    /\ path = None
    /\ mode = "none"
    /\ moves = 0
    /\ restarts = 0
    /\ caller = "none"
    /\ returned = {}
    /\ insertedHere = FALSE
    /\ query = <<>>
    /\ result = None
    /\ maze = NoMaze

\* rooms.find_shortest_path(start, end)
CallFindShortestPath ==
    /\ pc = "api"
    /\ \E start \in Rooms, end \in Rooms :
          /\ query' = <<"find_shortest_path", start, end>>
          /\ result' = find_shortest_path(rooms, start, end)
    /\ pc' = "answered"
    /\ UNCHANGED <<StoreVars, now, outcome, err, cur, pending, LoopVars,
                   moves, restarts, caller, returned, insertedHere>>
    /\ UNCHANGED maze

\* rooms.getPathToNextIncomplete(startRoom)
CallGetPathToNextIncomplete ==
    /\ pc = "api"
    /\ \E startRoom \in Rooms :
          /\ query' = <<"getPathToNextIncomplete", startRoom, startRoom>>
          /\ result' = getPathToNextIncomplete(rooms, startRoom)
    /\ pc' = "answered"
    /\ UNCHANGED <<StoreVars, now, outcome, err, cur, pending, LoopVars,
                   moves, restarts, caller, returned, insertedHere>>
    /\ UNCHANGED maze

NextPath ==
    \/ CallFindShortestPath
    \/ CallGetPathToNextIncomplete

SpecPath == InitPath /\ [][NextPath]_vars

-----------------------------------------------------------------------------
(* The store used through its methods by any caller: a store opened on a   *)
(* missing file, then addRoom, get and find_shortest_path with any         *)
(* arguments, in any order, and a new store opened on the same file.  No   *)
(* other process looks at the files, so _save is one step; all calls fall  *)
(* in one clock second.                                                    *)

\* Room ids of these calls: one of them has two digits.
StoreRooms == {0, 12}

InitStore ==
    /\ rooms = <<>>
    /\ file = Missing
    /\ backups = {}
    /\ now = 0
    /\ pc = "store"
    /\ outcome = "running"
    /\ err = "none"
    /\ cur = 0
    /\ pending = FALSE
    /\ startId = NoRoom
    /\ nextDir = NoDir
    /\ newId = NoRoom
    /\ polls = 0
    /\ path = None
    /\ mode = "none"
    /\ moves = 0
    /\ restarts = 0
    /\ caller = "none"
    /\ returned = {}
    /\ insertedHere = FALSE
    /\ query = <<"CubeRooms">>
    /\ result = None
    /\ maze = NoMaze

\* rooms.addRoom(startRoom, direction, resultRoom) with a valid direction,
\* lines 57-76 and _save, lines 87-93.
StoreAddRoom ==
    /\ pc = "store"
    /\ moves < MaxCalls
    /\ \E startRoom \in StoreRooms, direction \in DirSet,
          resultRoom \in StoreRooms :
          LET r == addRoom(rooms, startRoom, direction, resultRoom)
          IN  /\ query' = <<"addRoom", startRoom, direction, resultRoom>>
              /\ rooms' = r.rooms
              /\ IF r.how = "inserted"
                 THEN /\ file' = Dump(r.rooms)
                      /\ backups' = WriteBackup(backups, now, Dump(r.rooms))
                      /\ UNCHANGED <<pc, outcome, err>>
                 ELSE IF r.how = "known"
                 THEN UNCHANGED <<file, backups, pc, outcome, err>>
                 ELSE /\ pc' = "exited"
                      /\ outcome' = "exit1"
                      /\ err' = "inconsistent"
                      /\ UNCHANGED <<file, backups>>
    /\ result' = None
    /\ moves' = moves + 1
    /\ UNCHANGED <<now, cur, pending, LoopVars, restarts, caller, returned,
                   insertedHere, maze>>

\* rooms.get(room), lines 78-85.
StoreGet ==
    /\ pc = "store"
    /\ \E room \in StoreRooms :
          /\ query' = <<"get", room>>
          /\ result' = [tag |-> "dict", items |-> get(rooms, room)]
    /\ UNCHANGED <<StoreVars, now, pc, outcome, err, cur, pending, LoopVars,
                   moves, restarts, caller, returned, insertedHere, maze>>

\* rooms.find_shortest_path(start, end), lines 95-111; the caller catches
\* what it raises.
StoreFindShortestPath ==
    /\ pc = "store"
    /\ \E start \in StoreRooms, end \in StoreRooms :
          /\ query' = <<"find_shortest_path", start, end>>
          /\ result' = find_shortest_path(rooms, start, end)
    /\ UNCHANGED <<StoreVars, now, pc, outcome, err, cur, pending, LoopVars,
                   moves, restarts, caller, returned, insertedHere, maze>>

\* rooms = CubeRooms(jsonFile) on the file as it is, lines 37-55: the load
\* and, when it succeeds, _save.
StoreReopen ==
    /\ pc = "store"
    /\ LET r == LoadFile(file)
       IN  /\ rooms' = r.rooms
           /\ IF r.ok
              THEN /\ file' = Dump(r.rooms)
                   /\ backups' = WriteBackup(backups, now, Dump(r.rooms))
              ELSE UNCHANGED <<file, backups>>
    /\ query' = <<"CubeRooms">>
    /\ result' = None
    /\ UNCHANGED <<now, pc, outcome, err, cur, pending, LoopVars, moves,
                   restarts, caller, returned, insertedHere, maze>>

NextStore ==
    \/ StoreAddRoom
    \/ StoreGet
    \/ StoreFindShortestPath
    \/ StoreReopen

SpecStore == InitStore /\ [][NextStore]_vars

-----------------------------------------------------------------------------
(* One run of the script through a static maze, from an empty graph: the   *)
(* primary file is missing or unreadable, every move leads where the maze  *)
(* says, to another room, and the browser has entered that room when the   *)
(* script reads the URL again.  The process is not killed.  The run starts *)
(* in room 0: the code does not tell one room id from another.             *)

\* The static mazes over Rooms without a move that stays in its room.
MazeFamily ==
    {m \in [Rooms \X DirSet -> Rooms] :
        \A r \in Rooms, d \in DirSet : m[<<r, d>>] # r}

InitRun ==
    /\ rooms = <<>>
    /\ file \in {Missing, Garbage}
    /\ backups = {}
    /\ now = 0
    /\ pc = "start"
    /\ outcome = "running"
    /\ err = "none"
    /\ cur = 0
    /\ pending = FALSE
    /\ startId = NoRoom
    /\ nextDir = NoDir
    /\ newId = NoRoom
    /\ polls = 0
    /\ path = None
    /\ mode = "none"
    /\ moves = 0
    /\ restarts = 0
    /\ caller = "none"
    /\ returned = {}
    /\ insertedHere = FALSE
    /\ query = <<>>
    /\ result = None
    /\ maze \in MazeFamily

\* Line 191: actionChains[nextDir].perform() sends the key press.
MazePerform ==
    /\ pc = "perform"
    /\ pending' = TRUE
    /\ polls' = 0
    /\ pc' = "poll"
    /\ UNCHANGED <<StoreVars, now, outcome, err, cur, startId, nextDir, newId,
                   path, mode, moves, restarts, caller, returned,
                   insertedHere, ApiVars, maze>>

\* The browser: the avatar enters the room the maze has in that direction.
MazeMoves ==
    /\ pending
    /\ pc = "poll"
    /\ cur' = maze[<<cur, nextDir>>]
    /\ pending' = FALSE
    /\ UNCHANGED <<StoreVars, now, pc, outcome, err, LoopVars, moves,
                   restarts, caller, returned, insertedHere, ApiVars, maze>>

\* Lines 194-203, read after the browser has moved.
MazePoll ==
    /\ ~pending
    /\ Poll

NextRun ==
    \/ Load
    \/ SaveOpen
    \/ SaveDump
    \/ SaveCopy
    \/ Choose
    \/ MazePerform
    \/ MazeMoves
    \/ MazePoll
    \/ Record

\* The script and the browser keep running: a step that can be taken is
\* taken.  The choice of lines 160-177 is a computation that ends, so the
\* script does not stay at it: this is WF_vars(Choose), which holds exactly
\* when pc is again and again not "choose", written without ENABLED.
SpecRun ==
    /\ InitRun
    /\ [][NextRun]_vars
    /\ WF_vars(Load)
    /\ WF_vars(SaveOpen)
    /\ WF_vars(SaveDump)
    /\ WF_vars(SaveCopy)
    /\ []<>(pc # "choose")
    /\ WF_vars(MazePerform)
    /\ WF_vars(MazeMoves)
    /\ WF_vars(MazePoll)
    /\ WF_vars(Record)

-----------------------------------------------------------------------------
(* What the claims speak of, stated without the code's own helpers. *)

\* The rooms one step away from r.
Succ(g, r) == {e[3] : e \in {x \in EdgesOf(g) : x[1] = r}}

\* The rooms reached from those of S in n steps at most.
RECURSIVE ReachIn(_, _, _)
ReachIn(g, S, n) ==
    IF n = 0 THEN S
    ELSE ReachIn(g, S \cup UNION {Succ(g, r) : r \in S}, n - 1)

Reachable(g, s, e) == e \in ReachIn(g, {s}, Cardinality(Rooms))

\* The least number of edges of a path from s to e, for e reachable from s.
Distance(g, s, e) ==
    CHOOSE n \in 0..Cardinality(Rooms) :
        /\ e \in ReachIn(g, {s}, n)
        /\ \A m \in 0..(n - 1) : e \notin ReachIn(g, {s}, m)

\* Every step of p, taken from the room before it, leads to its room.
Executable(g, start, p) ==
    \A i \in 1..Len(p) :
        <<IF i = 1 THEN start ELSE p[i - 1].room, p[i].dir, p[i].room>>
            \in EdgesOf(g)

\* The room a path from start ends in.
EndOf(start, p) == IF Len(p) = 0 THEN start ELSE p[Len(p)].room

\* Every edge leads to a room that has an entry.
TargetsHaveEntries(g) == \A e \in EdgesOf(g) : HasKey(g, e[3])

\* The rooms with an entry of fewer than four directions.
IncompleteRooms(g) == {g[i][1] : i \in {k \in 1..Len(g) : Len(g[k][2]) < 4}}

\* The addRoom call of the step is running and is not killed in it.
RecordRuns == pc = "record" /\ pc' # "down"

\* The pair (startId, nextDir) is recorded.
PairRecorded == HasKey(get(rooms, startId), nextDir)

-----------------------------------------------------------------------------
(* The claims. *)

\* C1 Consistency enforcement: when (room, direction) is recorded with
\* target A, addRoom(room, direction, B) with B # A ends the process with
\* sys.exit(1), and the graph in memory, the primary file and the backups
\* are what they were before the call.
C1_ConflictAbortsUnchanged ==
    [][(RecordRuns /\ PairRecorded
          /\ Lookup(get(rooms, startId), nextDir) # newId)
       => /\ pc' = "exited"
          /\ outcome' = "exit1"
          /\ err' = "inconsistent"
          /\ rooms' = rooms
          /\ file' = file
          /\ backups' = backups]_vars

C1_Witness ==
    /\ pc = "exited"
    /\ err = "inconsistent"
    /\ PairRecorded
    /\ Lookup(get(rooms, startId), nextDir) # newId
    /\ file = Dump(rooms)

\* C2 Write-through: once an addRoom call that inserted an edge has
\* returned, so whenever the main loop is at a step, the primary file holds
\* the graph that is in memory.
C2_WriteThrough ==
    (insertedHere /\ pc \in {"choose", "perform", "poll", "record", "exited"})
    => /\ file = Dump(rooms)
       /\ LoadFile(file) = [ok |-> TRUE, rooms |-> rooms]

C2_Witness ==
    /\ insertedHere
    /\ pc = "perform"
    /\ moves >= 2
    /\ Cardinality(EdgesOf(rooms)) >= 2

\* C3 Crash-resume: after a kill at any point and a restart on the same
\* file, the loaded graph has every edge whose addRoom call had returned.
C3_CrashResume ==
    (restarts > 0 /\ pc = "choose") => returned \subseteq EdgesOf(rooms)

\* C4 Idempotent recording: addRoom with an edge that is recorded already
\* changes neither the graph in memory, nor the primary file, nor the
\* backups, and does not save.
C4_Idempotent ==
    [][(RecordRuns /\ PairRecorded
          /\ Lookup(get(rooms, startId), nextDir) = newId)
       => /\ pc' = "choose"
          /\ outcome' = outcome
          /\ rooms' = rooms
          /\ file' = file
          /\ backups' = backups]_vars

C4_Witness ==
    /\ pc = "choose"
    /\ mode = "Navigate"
    /\ <<startId, nextDir, newId>> \in EdgesOf(rooms)
    /\ <<startId, nextDir, newId>> \in returned

\* What the caller makes of an answer of find_shortest_path: line 126.
StepsOf(found) == Tail(unwrap(found))

\* C5 Shortest path correctness: in a graph where every edge leads to a
\* room with an entry, for rooms start and end with entries,
\* find_shortest_path(start, end) unwrapped is a path that can be walked
\* from start, ends at end and has the least number of edges (none when
\* start = end); it is None when end cannot be reached.
C5_ShortestPath ==
    (/\ pc = "answered"
     /\ query[1] = "find_shortest_path"
     /\ TargetsHaveEntries(rooms)
     /\ HasKey(rooms, query[2])
     /\ HasKey(rooms, query[3]))
    => IF Reachable(rooms, query[2], query[3])
       THEN /\ result.tag = "list"
            /\ Executable(rooms, query[2], StepsOf(result))
            /\ EndOf(query[2], StepsOf(result)) = query[3]
            /\ Len(StepsOf(result)) = Distance(rooms, query[2], query[3])
            /\ (query[2] = query[3] => StepsOf(result) = <<>>)
       ELSE result = None

\* A path of two edges was found although the graph has a cycle back to
\* the start.
C5_Witness ==
    /\ pc = "answered"
    /\ query[1] = "find_shortest_path"
    /\ TargetsHaveEntries(rooms)
    /\ HasKey(rooms, query[2])
    /\ HasKey(rooms, query[3])
    /\ result.tag = "list"
    /\ Len(StepsOf(result)) = 2
    /\ Reachable(rooms, query[3], query[2])

\* The incomplete rooms other than s that can be reached from s.
Candidates(g, s) ==
    {r \in IncompleteRooms(g) : r # s /\ Reachable(g, s, r)}

\* The least distance from s to a room of C.
LeastDistance(g, s, C) ==
    CHOOSE n \in 0..Cardinality(Rooms) :
        /\ \E r \in C : Distance(g, s, r) = n
        /\ \A r \in C : Distance(g, s, r) >= n

\* p leads from s to the nearest incomplete room, the first in the order of
\* the entries among those as near.
NearestFirst(g, s, p) ==
    /\ Executable(g, s, p)
    /\ EndOf(s, p) \in Candidates(g, s)
    /\ Len(p) = LeastDistance(g, s, Candidates(g, s))
    /\ \A r \in Candidates(g, s) :
          Distance(g, s, r) = Len(p)
              => IndexOf(g, EndOf(s, p), 1) <= IndexOf(g, r, 1)

\* C6 Frontier selection distance: for a complete current room from which
\* an incomplete room can be reached, getPathToNextIncomplete returns a
\* path to an incomplete room at the least distance, the first of the
\* entries among those at that distance.
C6_FrontierSelection ==
    (/\ pc = "answered"
     /\ query[1] = "getPathToNextIncomplete"
     /\ Len(get(rooms, query[2])) = 4
     /\ Candidates(rooms, query[2]) # {})
    => /\ result.tag = "list"
       /\ NearestFirst(rooms, query[2], result.items)

\* The same where every edge leads to a room with an entry.
FrontierSelectionOnClosedGraphs ==
    (/\ pc = "answered"
     /\ query[1] = "getPathToNextIncomplete"
     /\ Len(get(rooms, query[2])) = 4
     /\ TargetsHaveEntries(rooms))
    => IF Candidates(rooms, query[2]) # {}
       THEN /\ result.tag = "list"
            /\ NearestFirst(rooms, query[2], result.items)
       ELSE result = None

\* The selector of the step returns None: the room is complete and no
\* incomplete room can be reached.
SelectorSaysNone ==
    /\ startId # NoRoom
    /\ FirstMissing(get(rooms, startId), 1) = NoDir
    /\ getPathToNextIncomplete(rooms, startId) = None

\* C7 Completion: a step in which the current room is complete and the
\* selector returns None ends the script without an error, without a move
\* and without an edge recorded.
C7_Completion ==
    (pc = "exited" /\ mode = "Navigate" /\ SelectorSaysNone)
    => /\ outcome \notin {"exception", "exit1"}
       /\ ~pending

\* C8 Stall detection: the poll loop reads the room ten times at most; when
\* every read shows the room of the start of the step, the script ends with
\* sys.exit(1), and no poll of the step changes the graph, the primary file
\* or the backups or lets an addRoom call return.
C8_StallDetection ==
    /\ [](polls <= PollBudget)
    /\ []((pc = "exited" /\ err = "stalled")
            => /\ polls = PollBudget
               /\ outcome = "exit1"
               /\ cur = startId)
    /\ [][(pc = "poll" /\ pc' # "down" /\ cur' = cur)
          => /\ UNCHANGED <<rooms, file, backups, returned>>
             /\ IF cur # startId THEN pc' = "record"
                ELSE IF polls + 1 = PollBudget
                THEN pc' = "exited" /\ err' = "stalled"
                ELSE pc' = "poll" /\ polls' = polls + 1]_vars
    /\ [][(pc = "exited" /\ err = "stalled") => pc' = "start"]_vars

C8_Witness ==
    /\ pc = "exited"
    /\ err = "stalled"
    /\ polls = PollBudget
    /\ mode = "LocalExpand"
    /\ ~HasKey(get(rooms, startId), nextDir)

\* The order of the directions the claims name: up, right, down, left.
PriorityOrder == <<"u", "r", "d", "l">>

\* C9 Local-expand priority: in a step where the current room lacks a
\* direction, the chosen direction is the first of up, right, down, left
\* that the room lacks, and the selector is not called.
C9_LocalExpandPriority ==
    [][(/\ pc = "choose"
        /\ pc' # "down"
        /\ \E d \in DirSet : ~HasKey(get(rooms, cur), d))
       => /\ pc' = "perform"
          /\ mode' = "LocalExpand"
          /\ path' = path
          /\ \E i \in 1..4 :
                /\ nextDir' = PriorityOrder[i]
                /\ ~HasKey(get(rooms, cur), PriorityOrder[i])
                /\ \A j \in 1..(i - 1) :
                      HasKey(get(rooms, cur), PriorityOrder[j])]_vars

\* Right is chosen in a room that lacks right and left.
C9_Witness ==
    /\ pc = "perform"
    /\ mode = "LocalExpand"
    /\ nextDir = "r"
    /\ ~HasKey(get(rooms, startId), "l")
    /\ HasKey(get(rooms, startId), "u")

\* C10 Load fallback: when reading or parsing the primary file fails, the
\* store starts with an empty graph, the script goes on, and no file is
\* written.
C10_LoadFallback ==
    (pc = "choose" /\ ~insertedHere /\ ~LoadFile(file).ok)
    => /\ rooms = <<>>
       /\ outcome = "running"

\* C12 Atomic snapshot visibility: once a persist has completed, whoever
\* reads the primary file, at any moment before, during or after a later
\* persist, finds a complete document that loads to a graph, never an empty
\* or partly written file.
C12_AtomicSnapshot ==
    (backups # {}) => /\ file.kind = "json"
                      /\ LoadFile(file).ok

\* C13 Path finder totality: on every graph, also one where an edge leads to
\* a room without an entry, find_shortest_path from a room with an entry
\* returns a path or None and raises nothing; it returns None when end
\* cannot be reached.
C13_PathFinderTotal ==
    (/\ pc = "answered"
     /\ query[1] = "find_shortest_path"
     /\ HasKey(rooms, query[2]))
    => /\ result.tag \in {"list", "none"}
       /\ (~Reachable(rooms, query[2], query[3]) => result.tag = "none")

\* C14 Selector with an incomplete current room: when startRoom has an
\* entry of fewer than four directions, getPathToNextIncomplete returns the
\* path of no moves to it, not a longer path and not None.  Stated for the
\* graphs where every edge leads to a room with an entry.
C14_IncompleteCurrentRoom ==
    (/\ pc = "answered"
     /\ query[1] = "getPathToNextIncomplete"
     /\ TargetsHaveEntries(rooms)
     /\ HasKey(rooms, query[2])
     /\ Len(Lookup(rooms, query[2])) < 4)
    => /\ result.tag = "list"
       /\ Len(result.items) = 0

\* C15 Backups are append-only: every persist leaves a backup that holds the
\* graph of that persist, and a backup once written stays as it is through
\* every later step, also when two persists fall in one clock second.
C15_BackupsAppendOnly ==
    /\ [][(pc = "save_copy" /\ pc' = "choose")
            => \E b \in backups' : b[2] = Dump(rooms)]_vars
    /\ [][\A b \in backups : b \in backups']_vars

\* C11 Round-trip: when the primary file is the save of the graph G that
\* addRoom calls built, a new store opened on it holds G, with the same
\* room ids and the same directions and targets in each room, and the file
\* it saves again is the file it found.
C11_RoundTrip ==
    [][(pc = "store" /\ file = Dump(rooms) /\ query' = <<"CubeRooms">>)
       => /\ rooms' = rooms
          /\ file' = file
          /\ file' = Dump(rooms')]_vars

\* A store was opened on the save of a graph whose room 12 has two
\* directions, left recorded first.
C11_Witness ==
    /\ pc = "store"
    /\ query = <<"CubeRooms">>
    /\ file = Dump(rooms)
    /\ HasKey(rooms, 12)
    /\ Len(Lookup(rooms, 12)) >= 2
    /\ Lookup(rooms, 12)[1][1] = "l"

\* C16 Monotonic growth: through every call of a run an edge once recorded
\* stays recorded with its target, a pair (room, direction) has one target
\* at most, and get(room) leaves the graph as it is, also for a room
\* without an entry.
C16_MonotonicGrowth ==
    /\ [][EdgesOf(rooms) \subseteq EdgesOf(rooms')]_vars
    /\ [](\A e1, e2 \in EdgesOf(rooms) :
             (e1[1] = e2[1] /\ e1[2] = e2[2]) => e1[3] = e2[3])
    /\ [][query'[1] = "get" => rooms' = rooms]_vars

\* get was called for a room without an entry in a graph of three edges.
C16_Witness ==
    /\ pc = "store"
    /\ query[1] = "get"
    /\ ~HasKey(rooms, query[2])
    /\ result.items = <<>>
    /\ Cardinality(EdgesOf(rooms)) >= 3

\* The connections of a room in the order up, right, down, left.
SortedConns(conns) ==
    LET present == SelectSeq(PriorityOrder, LAMBDA d : HasKey(conns, d))
    IN  [i \in 1..Len(present) |-> <<present[i], Lookup(conns, present[i])>>]

\* The graph with every room's connections in that order.
Canonical(g) == [i \in 1..Len(g) |-> <<g[i][1], SortedConns(g[i][2])>>]

\* C17 Shortest-path tie-break: the path find_shortest_path returns is the
\* one a breadth-first search finds first that expands the directions of
\* each room in the order up, right, down, left, whatever the order in
\* which they were recorded.
C17_CanonicalTieBreak ==
    (pc = "store" /\ query[1] = "find_shortest_path" /\ result.tag = "list")
    => result = find_shortest_path(Canonical(rooms), query[2], query[3])

\* The least distance from s to an incomplete room, s itself counted; -1
\* when none can be reached.
NearestIncomplete(g, s) ==
    LET C == {r \in IncompleteRooms(g) : Reachable(g, s, r)}
    IN  IF C = {} THEN -1 ELSE LeastDistance(g, s, C)

\* The current room is complete and no incomplete room can be reached.
ExplorationDone ==
    /\ pc = "choose"
    /\ Len(get(rooms, cur)) = 4
    /\ Candidates(rooms, cur) = {}

\* C18 Eventual completion: in a run from an empty graph through a static
\* maze without a move that stays in its room, a Navigate step lands in the
\* room the path predicts, records no new edge and brings the nearest
\* incomplete room one move nearer; a LocalExpand step records a new edge;
\* and the run comes to a step where the current room is complete and no
\* incomplete room can be reached from it.
C18_EventualCompletion ==
    /\ [][(pc = "record" /\ mode = "Navigate")
            => /\ newId = path.items[1].room
               /\ rooms' = rooms
               /\ NearestIncomplete(rooms, newId)
                     = NearestIncomplete(rooms, startId) - 1]_vars
    /\ [][(pc = "record" /\ mode = "LocalExpand")
            => /\ <<startId, nextDir, newId>> \notin EdgesOf(rooms)
               /\ EdgesOf(rooms')
                     = EdgesOf(rooms) \cup {<<startId, nextDir, newId>>}]_vars
    /\ <>ExplorationDone

\* A Navigate step along a path of two moves has landed where predicted.
C18_Witness ==
    /\ pc = "record"
    /\ mode = "Navigate"
    /\ Len(path.items) = 2
    /\ newId = path.items[1].room

\* C19 Targets have entries: in a run from an empty graph, at the start of
\* every step each room an edge leads to has an entry or is the current
\* room; when the current room is complete every such room has an entry,
\* and the search of a Navigate step raises no KeyError.
C19_TargetsHaveEntries ==
    /\ pc = "choose"
          => \A e \in EdgesOf(rooms) : HasKey(rooms, e[3]) \/ e[3] = cur
    /\ (pc = "choose" /\ Len(get(rooms, cur)) = 4)
          => TargetsHaveEntries(rooms)
    /\ err # "KeyError"

\* A Navigate step whose search found a path.
C19_Witness ==
    /\ pc = "perform"
    /\ mode = "Navigate"
    /\ path.tag = "list"
    /\ TargetsHaveEntries(rooms)

\* The directions recorded for a room.
DirectionsOf(conns) == {conns[j][1] : j \in 1..Len(conns)}

\* C20 Prefix of the priority order: in a run from an empty graph the
\* directions recorded for a room are always the first ones of up, right,
\* down, left, so a room has at most four entries, all valid directions,
\* and is complete exactly when left is recorded.
C20_PriorityPrefix ==
    \A i \in 1..Len(rooms) :
        LET conns == rooms[i][2]
        IN  /\ Len(conns) <= 4
            /\ DirectionsOf(conns) = {PriorityOrder[j] : j \in 1..Len(conns)}
            /\ DirectionsOf(conns) \subseteq DirSet
            /\ (Len(conns) = 4) <=> HasKey(conns, "l")

\* One room is complete while another has two directions.
C20_Witness ==
    \E i, k \in 1..Len(rooms) :
        /\ Len(rooms[i][2]) = 4
        /\ Len(rooms[k][2]) = 2
        /\ HasKey(rooms[i][2], "l")

====
